---- MODULE Spec2Model ----
(***************************************************************************)
(* Partition-parallel analytics over ordered key-value stores              *)
(* (terencezl/rocksdb-examples): the prefix generator, the serial and the  *)
(* partitioned two-pointer merge, the partitioned scan and the map/reduce  *)
(* pipeline.                                                               *)
(*                                                                         *)
(* Byte strings are sequences of byte values (0..255); a store is the      *)
(* sequence of its entries in increasing bytewise key order, which is the  *)
(* order a RocksDB iterator yields them in.                                *)
(***************************************************************************)
EXTENDS Integers, Sequences, FiniteSets, TLC

VARIABLES
    job,        \* the program that runs: "gen", "serial", "merge", "scan", "map", "reduce"
    gen,        \* generate_consecutive_hex_strings: its argument, loop index and output
    dbLeft,     \* the store opened first (db / db_left), sorted by key
    dbRight,    \* db_right of the two-pointer programs, sorted by key
    faultLeft,  \* index of the entry of dbLeft whose read fails (0: no read fails)
    faultRight, \* the same for dbRight
    sourceDb,   \* history: the store the Map step read, kept while Reduce runs on its output
    ser,        \* two-pointer-serial: the locals of main
    main,       \* the partitioned programs: where main is, and whether a worker panicked
    next,       \* how many prefixes the thread pool has handed to a worker
    thr,        \* the pool's threads: the locals of the closure each one runs
    acc,        \* the reduction of the results of the closures that returned
    outputDb,   \* output_db of map-reduce, sorted by key
    visits      \* history: how often each entry of dbLeft and dbRight passed a worker's prefix test

vars == <<job, gen, dbLeft, dbRight, faultLeft, faultRight, sourceDb, ser, main, next,
          thr, acc, outputDb, visits>>

storeVars == <<dbLeft, dbRight, faultLeft, faultRight, sourceDb>>
parVars == <<main, next, thr, acc, outputDb, visits>>

(***************************************************************************)
(* Bytes and byte strings                                                  *)
(***************************************************************************)

\* The digits of the {:x} formatter and of hex::encode: "0123456789abcdef".
HexDigits == <<48, 49, 50, 51, 52, 53, 54, 55, 56, 57, 97, 98, 99, 100, 101, 102>>

HexBase == 16

\* b'.', the separator of the mapped key.
Dot == 46

\* b'|', the delimiter of the reduced value.
Pipe == 124

\* Ord of byte slices (and RocksDB's bytewise comparator): a < b.
RECURSIVE LexLessFrom(_, _, _)
LexLessFrom(a, b, i) ==
    IF i > Len(b) THEN FALSE
    ELSE IF i > Len(a) THEN TRUE
    ELSE IF a[i] # b[i] THEN a[i] < b[i]
    ELSE LexLessFrom(a, b, i + 1)

LexLess(a, b) == LexLessFrom(a, b, 1)

\* The entries of a key set in increasing key order.
RECURSIVE SortedKeys(_)
SortedKeys(S) ==
    IF S = {} THEN <<>>
    ELSE LET m == CHOOSE k \in S : \A o \in S : o = k \/ LexLess(k, o)
         IN <<m>> \o SortedKeys(S \ {m})

KeysOf(db) == {db[i].key : i \in 1..Len(db)}

(***************************************************************************)
(* The store iterator (full_iterator + Iterator::next)                     *)
(***************************************************************************)

NoneItem == [tag |-> "None", key |-> <<>>, value |-> <<>>]
ErrItem == [tag |-> "Err", key |-> <<>>, value |-> <<>>]
OkItem(e) == [tag |-> "Ok", key |-> e.key, value |-> e.value]

\* IteratorMode::From(from, Forward): the index of the first entry with key >= from
\* (Len(db) + 1 when there is none).  IteratorMode::Start is the seek to the empty key.
RECURSIVE SeekIndexFrom(_, _, _)

\* A seek that lands behind a key equal to the seek key.
SeekIndexFrom_After(db, from, i) ==
    IF i > Len(db) THEN i
    ELSE IF LexLess(from, db[i].key) THEN i
    ELSE SeekIndexFrom(db, from, i + 1)

SeekIndexFrom(db, from, i) ==
    IF i > Len(db) THEN i
    ELSE IF ~LexLess(db[i].key, from) THEN i
    ELSE SeekIndexFrom(db, from, i + 1)

SeekIndex(db, from) == SeekIndexFrom(db, from, 1)

NewIter(db, from, fault) == [pos |-> SeekIndex(db, from), fault |-> fault, done |-> FALSE]

\* What next() returns: None once done or past the last entry, Err (once) when the
\* read of the entry under the cursor fails, the entry otherwise.
IterItem(db, it) ==
    IF it.done THEN NoneItem
    ELSE IF it.fault # 0 /\ it.pos >= it.fault THEN ErrItem
    ELSE IF it.pos > Len(db) THEN NoneItem
    ELSE OkItem(db[it.pos])

\* The iterator after that call of next().
IterAfter(db, it) ==
    IF it.done THEN it
    ELSE IF (it.fault # 0 /\ it.pos >= it.fault) \/ it.pos > Len(db)
         THEN [it EXCEPT !.done = TRUE]
    ELSE [it EXCEPT !.pos = it.pos + 1]

(***************************************************************************)
(* generate_consecutive_hex_strings                                        *)
(***************************************************************************)

\* Width of u64, the type of 16_u64.pow(n_digits).
U64Bits == 64

\* Largest width whose strings are enumerated.
MaxGenWidth == 2

RECURSIVE Pow(_, _)
Pow(b, e) == IF e = 0 THEN 1 ELSE b * Pow(b, e - 1)

\* 16_u64.pow(n) overflows u64 exactly when 16^n >= 2^64, i.e. 4n >= 64.
Pow16Overflows(n) == 4 * n >= U64Bits

\* The minimal lowercase hex digits of i ({:x}).
RECURSIVE HexOf(_)
HexOf(i) ==
    IF i < HexBase THEN <<HexDigits[i + 1]>>
    ELSE HexOf(i \div HexBase) \o <<HexDigits[(i % HexBase) + 1]>>

\* format!("{i:x}"): the digits without the zero padding.
FormatHex_NoPadding(i, width) == HexOf(i)

\* format!("{i:0width$x}"): zero-padded on the left up to width, never truncated.
FormatHex(i, width) ==
    LET d == HexOf(i)
    IN  [j \in 1..(IF Len(d) >= width THEN 0 ELSE width - Len(d)) |-> HexDigits[1]] \o d

\* The widths the generator is called with: the enumerable ones, 0, and the first
\* width at which 16_u64.pow overflows.
GenWidths == (0..MaxGenWidth) \cup {U64Bits \div 4}

GenInit ==
    /\ job = "gen"
    /\ gen \in {[n |-> n, pc |-> "start", end |-> 0, i |-> 0, out |-> <<>>] : n \in GenWidths}

\* (0..16_u64.pow(n_digits)): the range's end.  On overflow a build with overflow
\* checks panics and one without wraps to 0.
GenRange ==
    /\ job = "gen" /\ gen.pc = "start"
    /\ IF Pow16Overflows(gen.n)
       THEN \/ gen' = [gen EXCEPT !.pc = "panic"]
            \/ gen' = [gen EXCEPT !.pc = "map", !.end = 0]
       ELSE gen' = [gen EXCEPT !.pc = "map", !.end = Pow(HexBase, gen.n)]
    /\ UNCHANGED <<job, storeVars, ser, parVars>>

\* .map(|i| format!(...)): one element of the range.
GenMap ==
    /\ job = "gen" /\ gen.pc = "map" /\ gen.i < gen.end
    /\ gen' = [gen EXCEPT !.out = Append(gen.out, FormatHex(gen.i, gen.n)), !.i = gen.i + 1]
    /\ UNCHANGED <<job, storeVars, ser, parVars>>

\* .collect(): the range is exhausted.
GenCollect ==
    /\ job = "gen" /\ gen.pc = "map" /\ gen.i >= gen.end
    /\ gen' = [gen EXCEPT !.pc = "done"]
    /\ UNCHANGED <<job, storeVars, ser, parVars>>

\* The value of generate_consecutive_hex_strings(n) for a width that does not overflow.
GenerateConsecutiveHexStrings(n) == [i \in 1..Pow(HexBase, n) |-> FormatHex(i - 1, n)]

GenIdle == [n |-> 0, pc |-> "idle", end |-> 0, i |-> 0, out |-> <<>>]

(***************************************************************************)
(* Inputs                                                                  *)
(***************************************************************************)

\* Most entries a store holds.
MaxEntries == 2

\* The stores with the keys of K, at most MaxEntries of them, each with the value v.
StoresOver(K, v) ==
    {[i \in 1..Len(SortedKeys(S)) |-> [key |-> SortedKeys(S)[i], value |-> v]] :
        S \in {T \in SUBSET K : Cardinality(T) <= MaxEntries}}

\* Keys of the two-pointer programs: "0", "00", "00g", "0g", "1", "a1".
MergeKeys == {<<48>>, <<48, 48>>, <<48, 48, 103>>, <<48, 103>>, <<49>>, <<97, 49>>}

(***************************************************************************)
(* two-pointer-serial                                                      *)
(***************************************************************************)

SerIdle ==
    [pc |-> "idle", iterL |-> NewIter(<<>>, <<>>, 0), iterR |-> NewIter(<<>>, <<>>, 0),
     itemL |-> NoneItem, itemR |-> NoneItem,
     count_left |-> 0, count_right |-> 0, count_intersection |-> 0,
     count_left_unique |-> 0, count_right_unique |-> 0]

\* The loop main is in once the conditions of the loops before it have failed:
\* the two-pointer loop while both items are Some(Ok), then the loop draining the
\* left side while item_left is Some, then the one draining the right side.
SerPcAt(pc, itemL, itemR) ==
    IF pc = "merge" /\ itemL.tag = "Ok" /\ itemR.tag = "Ok" THEN "merge"
    ELSE IF pc \in {"merge", "drainL"} /\ itemL.tag # "None" THEN "drainL"
    ELSE IF itemR.tag # "None" THEN "drainR"
    ELSE "report"

\* main up to the first test of the two-pointer loop: both iterators from the start,
\* the counters at 0, the first item of each side.
SerStart ==
    /\ job = "serial" /\ ser.pc = "start"
    /\ LET iL == NewIter(dbLeft, <<>>, faultLeft)
           iR == NewIter(dbRight, <<>>, faultRight)
           itemL == IterItem(dbLeft, iL)
           itemR == IterItem(dbRight, iR)
       IN  ser' = [ser EXCEPT !.pc = SerPcAt("merge", itemL, itemR),
                              !.iterL = IterAfter(dbLeft, iL),
                              !.iterR = IterAfter(dbRight, iR),
                              !.itemL = itemL, !.itemR = itemR,
                              !.count_left = 0, !.count_right = 0,
                              !.count_intersection = 0]
    /\ UNCHANGED <<job, gen, storeVars, parVars>>

\* A comparison whose equal case does not advance the left cursor.
AdvancesLeft_NotOnEqual(bl, br) == LexLess(bl, br)

\* The branches of the two-pointer comparison that call db_iter_left.next():
\* blob_left == blob_right, and blob_left < blob_right.
AdvancesLeft(bl, br) == bl = br \/ LexLess(bl, br)

\* Both items are taken out of their slots on every iteration (Option::take), so the
\* right cursor advances whatever the comparison says.
AdvancesRight_Take(bl, br) == TRUE

\* The branches that call db_iter_right.next(): blob_left == blob_right, and the
\* final else.
AdvancesRight(bl, br) == bl = br \/ ~LexLess(bl, br)

\* One iteration of the two-pointer loop.
SerMergeStep ==
    /\ job = "serial" /\ ser.pc = "merge"
    /\ LET advL == AdvancesLeft(ser.itemL.key, ser.itemR.key)
           advR == AdvancesRight(ser.itemL.key, ser.itemR.key)
           itemL == IF advL THEN IterItem(dbLeft, ser.iterL) ELSE ser.itemL
           itemR == IF advR THEN IterItem(dbRight, ser.iterR) ELSE ser.itemR
       IN  ser' = [ser EXCEPT
                       !.pc = SerPcAt("merge", itemL, itemR),
                       !.iterL = IF advL THEN IterAfter(dbLeft, ser.iterL) ELSE ser.iterL,
                       !.iterR = IF advR THEN IterAfter(dbRight, ser.iterR) ELSE ser.iterR,
                       !.itemL = itemL, !.itemR = itemR,
                       !.count_left = ser.count_left + (IF advL THEN 1 ELSE 0),
                       !.count_right = ser.count_right + (IF advR THEN 1 ELSE 0),
                       !.count_intersection =
                           ser.count_intersection + (IF advL /\ advR THEN 1 ELSE 0)]
    /\ UNCHANGED <<job, gen, storeVars, parVars>>

\* One iteration of `while item_left.is_some()`.
SerDrainLeft ==
    /\ job = "serial" /\ ser.pc = "drainL"
    /\ LET itemL == IterItem(dbLeft, ser.iterL)
       IN  ser' = [ser EXCEPT !.pc = SerPcAt("drainL", itemL, ser.itemR),
                              !.iterL = IterAfter(dbLeft, ser.iterL),
                              !.itemL = itemL,
                              !.count_left = ser.count_left + 1]
    /\ UNCHANGED <<job, gen, storeVars, parVars>>

\* One iteration of `while item_right.is_some()`.
SerDrainRight ==
    /\ job = "serial" /\ ser.pc = "drainR"
    /\ LET itemR == IterItem(dbRight, ser.iterR)
       IN  ser' = [ser EXCEPT !.pc = SerPcAt("drainR", ser.itemL, itemR),
                              !.iterR = IterAfter(dbRight, ser.iterR),
                              !.itemR = itemR,
                              !.count_right = ser.count_right + 1]
    /\ UNCHANGED <<job, gen, storeVars, parVars>>

\* The unique counts main prints: total - intersection (the counters are i32).
SerReport ==
    /\ job = "serial" /\ ser.pc = "report"
    /\ ser' = [ser EXCEPT !.pc = "done",
                          !.count_left_unique = ser.count_left - ser.count_intersection,
                          !.count_right_unique = ser.count_right - ser.count_intersection]
    /\ UNCHANGED <<job, gen, storeVars, parVars>>

(***************************************************************************)
(* The thread pool (rayon): into_par_iter().map(closure).reduce(...)       *)
(***************************************************************************)

\* Threads of the pool.
NumThreads == 2

Threads == 1..NumThreads

\* A thread that runs no closure, and the locals of every closure before its first
\* statement.
WIdle ==
    [pc |-> "idle", prefix |-> <<>>,
     iterL |-> NewIter(<<>>, <<>>, 0), iterR |-> NewIter(<<>>, <<>>, 0),
     itemL |-> NoneItem, itemR |-> NoneItem,
     count_left |-> 0, count_right |-> 0, count_intersection |-> 0,
     count |-> 0, count_grouped |-> 0,
     write_batch |-> <<>>, prev_key |-> <<>>, blobs_vec |-> <<>>]

\* The identity of the reductions.
AccZero ==
    [count_left |-> 0, count_right |-> 0, count_intersection |-> 0,
     count |-> 0, count_grouped |-> 0]

\* A reduction that keeps the intersection count of the closure that returned last
\* instead of adding it.
Combine_KeepsLastIntersection(a, w) ==
    [count_left |-> a.count_left + w.count_left,
     count_right |-> a.count_right + w.count_right,
     count_intersection |-> w.count_intersection,
     count |-> a.count + w.count,
     count_grouped |-> a.count_grouped + w.count_grouped]

\* The reduction operators: field-wise sums.
Combine(a, w) ==
    [count_left |-> a.count_left + w.count_left,
     count_right |-> a.count_right + w.count_right,
     count_intersection |-> a.count_intersection + w.count_intersection,
     count |-> a.count + w.count,
     count_grouped |-> a.count_grouped + w.count_grouped]

\* main of a partitioned program.  History: errors, whether next() has returned an
\* Err to a closure; run, which run of the step on this output store this is; kept,
\* the output store as the run before left it.
MainIdle ==
    [pc |-> "idle", panicked |-> FALSE, errors |-> FALSE, flushes |-> 0, compactions |-> 0,
     count_left_unique |-> 0, count_right_unique |-> 0, run |-> 1, kept |-> <<>>]

MainStart == [MainIdle EXCEPT !.pc = "par"]

\* a - b on usize: a build with overflow checks panics when b > a, one without
\* wraps; WrappedUsize stands for the wrapped value 2^64 + a - b.
WrappedUsize == -1

USizeSub(a, b) ==
    IF a >= b THEN {[panic |-> FALSE, v |-> a - b]}
    ELSE {[panic |-> TRUE, v |-> 0], [panic |-> FALSE, v |-> WrappedUsize]}

NoVisits == [left |-> <<>>, right |-> <<>>]
ZeroVisits(l, r) == [left |-> [i \in 1..Len(l) |-> 0], right |-> [i \in 1..Len(r) |-> 0]]

\* &blob[..prefix.len()] is out of range: the slice panics.
SliceOutOfRange(blob, prefix) == Len(prefix) > Len(blob)

\* A prefix test that never breaks out of the loop.
PrefixDiffers_Never(blob, prefix) == FALSE

\* &blob[..prefix.len()] != prefix, for a blob at least as long as the prefix.
PrefixDiffers(blob, prefix) == SubSeq(blob, 1, Len(prefix)) # prefix

\* Thread t is at w after a step of its closure: a closure that returned hands its
\* result to the reduction, one that panicked hands over nothing, and either way the
\* thread is free again.
Settle(t, w) ==
    /\ thr' = [thr EXCEPT ![t] = IF w.pc \in {"ret", "panic"} THEN WIdle ELSE w]
    /\ acc' = IF w.pc = "ret" THEN Combine(acc, w) ELSE acc
    /\ main' = [main EXCEPT !.panicked = @ \/ w.pc = "panic",
                            !.errors = @ \/ w.itemL.tag = "Err" \/ w.itemR.tag = "Err"]

(***************************************************************************)
(* two-pointer-parallel                                                    *)
(***************************************************************************)

\* n_digits of generate_consecutive_hex_strings in two-pointer-parallel.
MergeWidth == 2

MergePrefixes == GenerateConsecutiveHexStrings(MergeWidth)

\* Where the closure is once the tests that change none of its locals are done: in
\* the body of the two-pointer loop ("merge") or of a drain loop ("drainL", "drainR")
\* with the item(s) it is about to count, out of the last loop ("ret"), or panicked
\* on a slice.  Each `while let` needs Some(Ok(..)); each loop body starts with the
\* prefix test on &blob[..prefix.len()] and breaks when it differs.
MergePcAt(pc, prefix, itemL, itemR) ==
    LET atR == IF itemR.tag # "Ok" THEN "ret"
               ELSE IF SliceOutOfRange(itemR.key, prefix) THEN "panic"
               ELSE IF PrefixDiffers(itemR.key, prefix) THEN "ret"
               ELSE "drainR"
        atL == IF itemL.tag # "Ok" THEN atR
               ELSE IF SliceOutOfRange(itemL.key, prefix) THEN "panic"
               ELSE IF PrefixDiffers(itemL.key, prefix) THEN atR
               ELSE "drainL"
        atM == IF itemL.tag # "Ok" \/ itemR.tag # "Ok" THEN atL
               ELSE IF SliceOutOfRange(itemL.key, prefix) THEN "panic"
               ELSE IF PrefixDiffers(itemL.key, prefix) THEN atL
               ELSE IF SliceOutOfRange(itemR.key, prefix) THEN "panic"
               ELSE IF PrefixDiffers(itemR.key, prefix) THEN atL
               ELSE "merge"
    IN  CASE pc = "merge" -> atM
          [] pc = "drainL" -> atL
          [] pc = "drainR" -> atR

\* The closure up to the first statement that counts: both iterators from the
\* prefix, the first item of each side.
MergeEnter(prefix) ==
    LET iL == NewIter(dbLeft, prefix, faultLeft)
        iR == NewIter(dbRight, prefix, faultRight)
        itemL == IterItem(dbLeft, iL)
        itemR == IterItem(dbRight, iR)
    IN  [WIdle EXCEPT !.pc = MergePcAt("merge", prefix, itemL, itemR), !.prefix = prefix,
                      !.iterL = IterAfter(dbLeft, iL), !.iterR = IterAfter(dbRight, iR),
                      !.itemL = itemL, !.itemR = itemR]

\* A two-pointer iteration that counts a common entry whatever the comparison says.
MergeLoopBody_AlwaysCommon(w) ==
    LET advL == AdvancesLeft(w.itemL.key, w.itemR.key)
        advR == AdvancesRight(w.itemL.key, w.itemR.key)
        itemL == IF advL THEN IterItem(dbLeft, w.iterL) ELSE w.itemL
        itemR == IF advR THEN IterItem(dbRight, w.iterR) ELSE w.itemR
    IN  [w EXCEPT !.pc = MergePcAt("merge", w.prefix, itemL, itemR),
                  !.iterL = IF advL THEN IterAfter(dbLeft, w.iterL) ELSE w.iterL,
                  !.iterR = IF advR THEN IterAfter(dbRight, w.iterR) ELSE w.iterR,
                  !.itemL = itemL, !.itemR = itemR,
                  !.count_left = w.count_left + (IF advL THEN 1 ELSE 0),
                  !.count_right = w.count_right + (IF advR THEN 1 ELSE 0),
                  !.count_intersection = w.count_intersection + 1]

\* The rest of an iteration of the two-pointer loop, both blobs having the prefix.
MergeLoopBody(w) ==
    LET advL == AdvancesLeft(w.itemL.key, w.itemR.key)
        advR == AdvancesRight(w.itemL.key, w.itemR.key)
        itemL == IF advL THEN IterItem(dbLeft, w.iterL) ELSE w.itemL
        itemR == IF advR THEN IterItem(dbRight, w.iterR) ELSE w.itemR
    IN  [w EXCEPT !.pc = MergePcAt("merge", w.prefix, itemL, itemR),
                  !.iterL = IF advL THEN IterAfter(dbLeft, w.iterL) ELSE w.iterL,
                  !.iterR = IF advR THEN IterAfter(dbRight, w.iterR) ELSE w.iterR,
                  !.itemL = itemL, !.itemR = itemR,
                  !.count_left = w.count_left + (IF advL THEN 1 ELSE 0),
                  !.count_right = w.count_right + (IF advR THEN 1 ELSE 0),
                  !.count_intersection =
                      w.count_intersection + (IF advL /\ advR THEN 1 ELSE 0)]

\* A drain of the left side that counts its entries as common ones too.
MergeDrainLeftBody_CountsCommon(w) ==
    LET itemL == IterItem(dbLeft, w.iterL)
    IN  [w EXCEPT !.pc = MergePcAt("drainL", w.prefix, itemL, w.itemR),
                  !.iterL = IterAfter(dbLeft, w.iterL),
                  !.itemL = itemL,
                  !.count_left = w.count_left + 1,
                  !.count_intersection = w.count_intersection + 1]

\* The rest of an iteration of the loop draining the left side.
MergeDrainLeftBody(w) ==
    LET itemL == IterItem(dbLeft, w.iterL)
    IN  [w EXCEPT !.pc = MergePcAt("drainL", w.prefix, itemL, w.itemR),
                  !.iterL = IterAfter(dbLeft, w.iterL),
                  !.itemL = itemL,
                  !.count_left = w.count_left + 1]

\* The rest of an iteration of the loop draining the right side.
MergeDrainRightBody(w) ==
    LET itemR == IterItem(dbRight, w.iterR)
    IN  [w EXCEPT !.pc = MergePcAt("drainR", w.prefix, w.itemL, itemR),
                  !.iterR = IterAfter(dbRight, w.iterR),
                  !.itemR = itemR,
                  !.count_right = w.count_right + 1]

\* The entries the step from w to v counted: the one under each cursor that moved.
Visited(w, v) ==
    [left |-> IF v.count_left # w.count_left \/ v.count # w.count
              THEN {w.iterL.pos - 1} ELSE {},
     right |-> IF v.count_right # w.count_right THEN {w.iterR.pos - 1} ELSE {}]

Visit(vs, hit) ==
    [left |-> [i \in DOMAIN vs.left |-> vs.left[i] + (IF i \in hit.left THEN 1 ELSE 0)],
     right |-> [i \in DOMAIN vs.right |-> vs.right[i] + (IF i \in hit.right THEN 1 ELSE 0)]]

\* A free thread takes the next prefix and runs the closure up to the first entry it
\* counts.
MergeTake(t) ==
    /\ job = "merge" /\ main.pc = "par" /\ thr[t].pc = "idle"
    /\ next < Len(MergePrefixes)
    /\ next' = next + 1
    /\ Settle(t, MergeEnter(MergePrefixes[next + 1]))
    /\ UNCHANGED <<job, gen, storeVars, ser, outputDb, visits>>

\* Thread t counts the entry (or the two equal entries) it is at and runs on to the
\* next.
MergeStep(t) ==
    /\ job = "merge" /\ thr[t].pc \in {"merge", "drainL", "drainR"}
    /\ LET w == thr[t]
           v == CASE w.pc = "merge" -> MergeLoopBody(w)
                  [] w.pc = "drainL" -> MergeDrainLeftBody(w)
                  [] w.pc = "drainR" -> MergeDrainRightBody(w)
       IN  /\ Settle(t, v)
           /\ visits' = Visit(visits, Visited(w, v))
    /\ UNCHANGED <<job, gen, storeVars, ser, next, outputDb>>

\* reduce() returns once every closure has: main prints the totals and the unique
\* counts, or the panic of a closure resumes in main.
MergeJoin ==
    /\ job = "merge" /\ main.pc = "par"
    /\ next = Len(MergePrefixes)
    /\ \A t \in Threads : thr[t].pc = "idle"
    /\ IF main.panicked
       THEN main' = [main EXCEPT !.pc = "panic"]
       ELSE \E ul \in USizeSub(acc.count_left, acc.count_intersection),
               ur \in USizeSub(acc.count_right, acc.count_intersection) :
                main' = IF ul.panic \/ ur.panic
                        THEN [main EXCEPT !.pc = "panic"]
                        ELSE [main EXCEPT !.pc = "done", !.count_left_unique = ul.v,
                                          !.count_right_unique = ur.v]
    /\ UNCHANGED <<job, gen, storeVars, ser, next, thr, acc, outputDb, visits>>

\* The partitioned program is run on the stores the serial one has finished with.
RunPartitioned ==
    /\ job = "serial" /\ ser.pc = "done"
    /\ job' = "merge"
    /\ main' = MainStart
    /\ UNCHANGED <<gen, storeVars, ser, next, thr, acc, outputDb, visits>>

MergeInit ==
    /\ job = "serial"
    /\ gen = GenIdle
    /\ dbLeft \in StoresOver(MergeKeys, <<49>>)
    /\ dbRight \in StoresOver(MergeKeys, <<50>>)
    /\ faultLeft = 0 /\ faultRight = 0
    /\ sourceDb = <<>>
    /\ ser = [SerIdle EXCEPT !.pc = "start"]
    /\ main = MainIdle
    /\ next = 0
    /\ thr = [t \in Threads |-> WIdle]
    /\ acc = AccZero
    /\ outputDb = <<>>
    /\ visits = ZeroVisits(dbLeft, dbRight)

MergeNext ==
    \/ SerStart
    \/ SerMergeStep
    \/ SerDrainLeft
    \/ SerDrainRight
    \/ SerReport
    \/ RunPartitioned
    \/ \E t \in Threads : MergeTake(t)
    \/ \E t \in Threads : MergeStep(t)
    \/ MergeJoin

SpecMerge == MergeInit /\ [][MergeNext]_vars

\* The merge programs under the scheduling of a running process and of the pool's
\* threads: a step that can be taken is eventually taken.
SpecMergeLive == MergeInit /\ [][MergeNext]_vars /\ WF_vars(MergeNext)

(***************************************************************************)
(* The two-pointer programs on stores whose reads fail                     *)
(***************************************************************************)

\* Keys of the stores whose reads fail: "00", "0g", "a1".
FaultKeys == {<<48, 48>>, <<48, 103>>, <<97, 49>>}

MergeFaultInit ==
    /\ job = "serial"
    /\ gen = GenIdle
    /\ dbLeft \in StoresOver(FaultKeys, <<49>>)
    /\ dbRight \in StoresOver(FaultKeys, <<50>>)
    /\ faultLeft \in 0..Len(dbLeft)
    /\ faultRight \in 0..Len(dbRight)
    /\ sourceDb = <<>>
    /\ ser = [SerIdle EXCEPT !.pc = "start"]
    /\ main = MainIdle
    /\ next = 0
    /\ thr = [t \in Threads |-> WIdle]
    /\ acc = AccZero
    /\ outputDb = <<>>
    /\ visits = ZeroVisits(dbLeft, dbRight)

SpecMergeFault == MergeFaultInit /\ [][MergeNext]_vars

(***************************************************************************)
(* parallel-scan (and inspect-rocksdb --count)                             *)
(***************************************************************************)

\* generate_hex_strings(n) of utils, which parallel-scan and inspect-rocksdb import:
\* the ordered list of all hex prefixes of length n.
GenerateHexStrings(n) == GenerateConsecutiveHexStrings(n)

\* n_digits of generate_hex_strings in parallel-scan and inspect-rocksdb.
ScanWidth == 2

ScanPrefixes == GenerateHexStrings(ScanWidth)

\* Keys of the scanned store: "", "0", "00", "00g", "0g", "1", "a1", "ff", "g0".
ScanKeys ==
    {<<>>, <<48>>, <<48, 48>>, <<48, 48, 103>>, <<48, 103>>, <<49>>, <<97, 49>>,
     <<102, 102>>, <<103, 48>>}

\* Where a closure with the loop `while let Some(item) = db_iter.next()` is once
\* next() has returned item: out of the loop on None ("exit"), panicked on
\* item.unwrap() of an Err or on the slice of a key shorter than the prefix, out of
\* the loop by the break of the prefix test, or in the rest of the body ("loop").
LoopPcAt(prefix, item) ==
    IF item.tag = "None" THEN "exit"
    ELSE IF item.tag = "Err" THEN "panic"
    ELSE IF SliceOutOfRange(item.key, prefix) THEN "panic"
    ELSE IF PrefixDiffers(item.key, prefix) THEN "exit"
    ELSE "loop"

\* The scan closure returns its count right after the loop.
ScanPcAt(prefix, item) ==
    LET pc == LoopPcAt(prefix, item) IN IF pc = "exit" THEN "ret" ELSE pc

\* The closure up to the first entry it counts.
ScanEnter(prefix) ==
    LET it == NewIter(dbLeft, prefix, faultLeft)
        item == IterItem(dbLeft, it)
    IN  [WIdle EXCEPT !.pc = ScanPcAt(prefix, item), !.prefix = prefix,
                      !.iterL = IterAfter(dbLeft, it), !.itemL = item]

\* count += 1, and the loop head again.
ScanBody(w) ==
    LET item == IterItem(dbLeft, w.iterL)
    IN  [w EXCEPT !.pc = ScanPcAt(w.prefix, item),
                  !.iterL = IterAfter(dbLeft, w.iterL),
                  !.itemL = item,
                  !.count = w.count + 1]

ScanTake(t) ==
    /\ job = "scan" /\ main.pc = "par" /\ thr[t].pc = "idle"
    /\ next < Len(ScanPrefixes)
    /\ next' = next + 1
    /\ Settle(t, ScanEnter(ScanPrefixes[next + 1]))
    /\ UNCHANGED <<job, gen, storeVars, ser, outputDb, visits>>

ScanStep(t) ==
    /\ job = "scan" /\ thr[t].pc = "loop"
    /\ Settle(t, ScanBody(thr[t]))
    /\ visits' = Visit(visits, Visited(thr[t], ScanBody(thr[t])))
    /\ UNCHANGED <<job, gen, storeVars, ser, next, outputDb>>

\* reduce() returns once every closure has: main prints the count, or the panic of a
\* closure resumes in main.
ScanJoin ==
    /\ job = "scan" /\ main.pc = "par"
    /\ next = Len(ScanPrefixes)
    /\ \A t \in Threads : thr[t].pc = "idle"
    /\ main' = [main EXCEPT !.pc = IF main.panicked THEN "panic" ELSE "done"]
    /\ UNCHANGED <<job, gen, storeVars, ser, next, thr, acc, outputDb, visits>>

ScanInit ==
    /\ job = "scan"
    /\ gen = GenIdle
    /\ dbLeft \in StoresOver(ScanKeys, <<49>>)
    /\ dbRight = <<>>
    /\ faultLeft \in 0..Len(dbLeft) /\ faultRight = 0
    /\ sourceDb = <<>>
    /\ ser = SerIdle
    /\ main = MainStart
    /\ next = 0
    /\ thr = [t \in Threads |-> WIdle]
    /\ acc = AccZero
    /\ outputDb = <<>>
    /\ visits = ZeroVisits(dbLeft, dbRight)

ScanNext ==
    \/ \E t \in Threads : ScanTake(t)
    \/ \E t \in Threads : ScanStep(t)
    \/ ScanJoin

SpecScan == ScanInit /\ [][ScanNext]_vars

(***************************************************************************)
(* The generator run on its own                                            *)
(***************************************************************************)

GenStart ==
    /\ GenInit
    /\ dbLeft = <<>> /\ dbRight = <<>>
    /\ faultLeft = 0 /\ faultRight = 0
    /\ sourceDb = <<>>
    /\ ser = SerIdle
    /\ main = MainIdle
    /\ next = 0
    /\ thr = [t \in Threads |-> WIdle]
    /\ acc = AccZero
    /\ outputDb = <<>>
    /\ visits = NoVisits

GenNext ==
    \/ GenRange
    \/ GenMap
    \/ GenCollect

SpecGen == GenStart /\ [][GenNext]_vars

(***************************************************************************)
(* map-reduce: the stores and the encodings                                *)
(***************************************************************************)

\* U+FFFD in UTF-8, which from_utf8_lossy puts in place of an invalid sequence.
ReplacementChar == <<239, 191, 189>>

\* String::from_utf8_lossy on bytes that are ASCII (kept) or can start or continue no
\* UTF-8 sequence (0xf8..0xff: each is replaced on its own).
RECURSIVE FromUtf8Lossy(_)
FromUtf8Lossy(b) ==
    IF b = <<>> THEN <<>>
    ELSE (IF Head(b) < 128 THEN <<Head(b)>> ELSE ReplacementChar) \o FromUtf8Lossy(Tail(b))

RECURSIVE HexEncode(_)

\* An encoding that writes one digit per byte.
HexEncode_HighNibbles(b) ==
    IF b = <<>> THEN <<>>
    ELSE <<HexDigits[(Head(b) \div HexBase) + 1]>> \o HexEncode(Tail(b))

\* hex::encode: two lowercase digits per byte, the high nibble first.
HexEncode(b) ==
    IF b = <<>> THEN <<>>
    ELSE <<HexDigits[(Head(b) \div HexBase) + 1], HexDigits[(Head(b) % HexBase) + 1]>>
         \o HexEncode(Tail(b))

\* format!("{}.{}", value_str, key_hex).
MapKey(key, value) == FromUtf8Lossy(value) \o <<Dot>> \o HexEncode(key)

\* A Map step that keeps the value as the value.
MapEntry_KeepsValue(key, value) == [key |-> MapKey(key, value), value |-> value]

\* The entry the Map step puts for (key, value): new_key, and new_value = key.
MapEntry(key, value) == [key |-> MapKey(key, value), value |-> key]

\* A store that keeps its entries in the order of the puts.
StorePut_Append(db, e) == Append(db, e)

\* A put that never replaces: the entry is added to those of its key.
StorePut_NoReplace(db, e) ==
    LET i == SeekIndex(db, e.key)
    IN  SubSeq(db, 1, i - 1) \o <<e>> \o SubSeq(db, i, Len(db))

\* A put on a store: the entry replaces the one with its key, or goes to its place
\* in key order.
StorePut(db, e) ==
    LET i == SeekIndex(db, e.key)
    IN  IF i <= Len(db) /\ db[i].key = e.key THEN [db EXCEPT ![i] = e]
        ELSE SubSeq(db, 1, i - 1) \o <<e>> \o SubSeq(db, i, Len(db))

RECURSIVE WriteBatchApply(_, _)

\* A write that stops after the first put of the batch.
WriteBatchApply_FirstPut(db, batch) ==
    IF batch = <<>> THEN db ELSE StorePut(db, Head(batch))

\* write_without_wal(&write_batch): the puts of the batch in their order.
WriteBatchApply(db, batch) ==
    IF batch = <<>> THEN db
    ELSE WriteBatchApply(StorePut(db, Head(batch)), Tail(batch))

\* The position of the first occurrence of byte in key.
RPosition_First(key, byte) ==
    LET S == {i \in 1..Len(key) : key[i] = byte}
    IN  IF S = {} THEN 0 ELSE CHOOSE i \in S : \A j \in S : i <= j

\* key.iter().rposition(|&b| b == byte): the last index of byte in key, 0 for None.
RPosition(key, byte) ==
    LET S == {i \in 1..Len(key) : key[i] = byte}
    IN  IF S = {} THEN 0 ELSE CHOOSE i \in S : \A j \in S : j <= i

RECURSIVE Join(_, _)

\* A join that puts no separator between the blobs.
Join_NoSeparator(blobs, sep) ==
    IF blobs = <<>> THEN <<>>
    ELSE blobs[1] \o Join(Tail(blobs), sep)

\* blobs_vec.join(&sep[..]).
Join(blobs, sep) ==
    IF blobs = <<>> THEN <<>>
    ELSE IF Len(blobs) = 1 THEN blobs[1]
    ELSE blobs[1] \o <<sep>> \o Join(Tail(blobs), sep)

\* Most entries of a source store of map-reduce.
MaxSourceEntries == 3

\* Entries of the source store: keys "00", "000", "01", "a0", "g0", "1"; values "ab", "cd",
\* "a", "ab.4" and "ab" followed by the byte 0xff.
SourceEntries ==
    {[key |-> <<48, 48>>, value |-> <<97, 98>>],
     [key |-> <<48, 48>>, value |-> <<97>>],
     [key |-> <<48, 49>>, value |-> <<97, 98>>],
     [key |-> <<48, 49>>, value |-> <<97, 98, 46, 52>>],
     [key |-> <<48, 49>>, value |-> <<99, 100>>],
     [key |-> <<97, 48>>, value |-> <<97, 98>>],
     [key |-> <<97, 48>>, value |-> <<97, 98, 255>>],
     [key |-> <<103, 48>>, value |-> <<97, 98>>],
     [key |-> <<48, 48, 48>>, value |-> <<97, 98>>],
     [key |-> <<49>>, value |-> <<97, 98>>]}

\* The entries of S, which have distinct keys, in increasing key order.
StoreOfEntries(S) ==
    LET ks == SortedKeys({e.key : e \in S})
    IN  [i \in 1..Len(ks) |-> CHOOSE e \in S : e.key = ks[i]]

SourceStores ==
    {StoreOfEntries(S) :
        S \in {T \in SUBSET SourceEntries :
                  /\ Cardinality(T) <= MaxSourceEntries
                  /\ \A e, f \in T : e.key = f.key => e = f}}

(***************************************************************************)
(* map-reduce: the Map step                                                *)
(***************************************************************************)

\* n_digits of generate_consecutive_hex_strings in the Map step.
MapWidth == 2

MapPrefixes == GenerateConsecutiveHexStrings(MapWidth)

\* The closure up to the first entry it maps.  A closure whose loop is left at once
\* writes its empty batch, which changes nothing, and returns.
MapEnter(prefix) ==
    LET it == NewIter(dbLeft, prefix, faultLeft)
        item == IterItem(dbLeft, it)
        pc == LoopPcAt(prefix, item)
    IN  [WIdle EXCEPT !.pc = IF pc = "exit" THEN "ret" ELSE pc, !.prefix = prefix,
                      !.iterL = IterAfter(dbLeft, it), !.itemL = item]

\* The rest of the loop body: the put into the batch, count += 1, and the loop head
\* again; out of the loop the closure is at write_without_wal.
MapBody(w) ==
    LET item == IterItem(dbLeft, w.iterL)
        pc == LoopPcAt(w.prefix, item)
    IN  [w EXCEPT !.pc = IF pc = "exit" THEN "commit" ELSE pc,
                  !.iterL = IterAfter(dbLeft, w.iterL),
                  !.itemL = item,
                  !.write_batch = Append(w.write_batch, MapEntry(w.itemL.key, w.itemL.value)),
                  !.count = w.count + 1]

MapTake(t) ==
    /\ job = "map" /\ main.pc = "par" /\ thr[t].pc = "idle"
    /\ next < Len(MapPrefixes)
    /\ next' = next + 1
    /\ Settle(t, MapEnter(MapPrefixes[next + 1]))
    /\ UNCHANGED <<job, gen, storeVars, ser, outputDb, visits>>

MapStep(t) ==
    /\ job = "map" /\ thr[t].pc = "loop"
    /\ Settle(t, MapBody(thr[t]))
    /\ visits' = Visit(visits, Visited(thr[t], MapBody(thr[t])))
    /\ UNCHANGED <<job, gen, storeVars, ser, next, outputDb>>

(***************************************************************************)
(* map-reduce: the Reduce step                                             *)
(***************************************************************************)

\* n_digits of generate_consecutive_hex_strings in the Reduce step.
ReduceWidth == 2

ReducePrefixes == GenerateConsecutiveHexStrings(ReduceWidth)

\* A loop body that takes the position None of the '.' as 0 instead of panicking.
ReducePcAt_NoDotCheck(prefix, item) == LoopPcAt(prefix, item)

\* As LoopPcAt, and in the body the closure panics ("Invalid key") on a key without
\* a '.'.
ReducePcAt(prefix, item) ==
    LET pc == LoopPcAt(prefix, item)
    IN  IF pc = "loop" /\ RPosition(item.key, Dot) = 0 THEN "panic" ELSE pc

\* The closure up to the first entry it groups.  A closure whose loop is left at
\* once has no group to put, writes its empty batch and returns.
ReduceEnter(prefix) ==
    LET it == NewIter(dbLeft, prefix, faultLeft)
        item == IterItem(dbLeft, it)
        pc == ReducePcAt(prefix, item)
    IN  [WIdle EXCEPT !.pc = IF pc = "exit" THEN "ret" ELSE pc, !.prefix = prefix,
                      !.iterL = IterAfter(dbLeft, it), !.itemL = item]

\* A loop body after which the group still open at the end of the partition is not put.
ReduceBody_NoLastPut(w) ==
    LET key == w.itemL.key
        dot == RPosition(key, Dot)
        new_key == SubSeq(key, 1, dot - 1)
        boundary == new_key # w.prev_key
        flushed == boundary /\ w.prev_key # <<>>
        batch == IF flushed
                 THEN Append(w.write_batch,
                             [key |-> w.prev_key, value |-> Join(w.blobs_vec, Pipe)])
                 ELSE w.write_batch
        grouped == w.count_grouped + (IF flushed THEN 1 ELSE 0)
        blobs == Append(IF boundary THEN <<>> ELSE w.blobs_vec, w.itemL.value)
        prev == IF boundary THEN new_key ELSE w.prev_key
        item == IterItem(dbLeft, w.iterL)
        pc == ReducePcAt(w.prefix, item)
        last == FALSE
    IN  [w EXCEPT !.pc = IF pc = "exit" THEN "commit" ELSE pc,
                  !.iterL = IterAfter(dbLeft, w.iterL),
                  !.itemL = item,
                  !.write_batch =
                      IF last THEN Append(batch, [key |-> prev, value |-> Join(blobs, Pipe)])
                      ELSE batch,
                  !.count_grouped = grouped + (IF last THEN 1 ELSE 0),
                  !.prev_key = prev,
                  !.blobs_vec = blobs,
                  !.count = w.count + 1]

\* The rest of the loop body for a key with a '.': the group boundary (the put of
\* the finished group unless prev_key is empty), the push, count += 1, and the loop
\* head again; out of the loop, the put of the last group, and the closure is at
\* write_without_wal.
ReduceBody(w) ==
    LET key == w.itemL.key
        dot == RPosition(key, Dot)
        new_key == SubSeq(key, 1, dot - 1)
        boundary == new_key # w.prev_key
        flushed == boundary /\ w.prev_key # <<>>
        batch == IF flushed
                 THEN Append(w.write_batch,
                             [key |-> w.prev_key, value |-> Join(w.blobs_vec, Pipe)])
                 ELSE w.write_batch
        grouped == w.count_grouped + (IF flushed THEN 1 ELSE 0)
        blobs == Append(IF boundary THEN <<>> ELSE w.blobs_vec, w.itemL.value)
        prev == IF boundary THEN new_key ELSE w.prev_key
        item == IterItem(dbLeft, w.iterL)
        pc == ReducePcAt(w.prefix, item)
        last == pc = "exit" /\ blobs # <<>>
    IN  [w EXCEPT !.pc = IF pc = "exit" THEN "commit" ELSE pc,
                  !.iterL = IterAfter(dbLeft, w.iterL),
                  !.itemL = item,
                  !.write_batch =
                      IF last THEN Append(batch, [key |-> prev, value |-> Join(blobs, Pipe)])
                      ELSE batch,
                  !.count_grouped = grouped + (IF last THEN 1 ELSE 0),
                  !.prev_key = prev,
                  !.blobs_vec = blobs,
                  !.count = w.count + 1]

ReduceTake(t) ==
    /\ job = "reduce" /\ main.pc = "par" /\ thr[t].pc = "idle"
    /\ next < Len(ReducePrefixes)
    /\ next' = next + 1
    /\ Settle(t, ReduceEnter(ReducePrefixes[next + 1]))
    /\ UNCHANGED <<job, gen, storeVars, ser, outputDb, visits>>

ReduceStep(t) ==
    /\ job = "reduce" /\ thr[t].pc = "loop"
    /\ Settle(t, ReduceBody(thr[t]))
    /\ visits' = Visit(visits, Visited(thr[t], ReduceBody(thr[t])))
    /\ UNCHANGED <<job, gen, storeVars, ser, next, outputDb>>

(***************************************************************************)
(* map-reduce: what the two steps share                                    *)
(***************************************************************************)

\* output_db.write_without_wal(&write_batch), and the closure returns its counts.
Commit(t) ==
    /\ job \in {"map", "reduce"} /\ thr[t].pc = "commit"
    /\ outputDb' = WriteBatchApply(outputDb, thr[t].write_batch)
    /\ Settle(t, [thr[t] EXCEPT !.pc = "ret"])
    /\ UNCHANGED <<job, gen, storeVars, ser, next, visits>>

\* reduce() returns once every closure has, or the panic of a closure resumes in main.
StepJoin ==
    /\ job \in {"map", "reduce"} /\ main.pc = "par"
    /\ next = Len(IF job = "map" THEN MapPrefixes ELSE ReducePrefixes)
    /\ \A t \in Threads : thr[t].pc = "idle"
    /\ main' = [main EXCEPT !.pc = IF main.panicked THEN "panic" ELSE "flush"]
    /\ UNCHANGED <<job, gen, storeVars, ser, next, thr, acc, outputDb, visits>>

\* A flush issued as soon as the closures have started, while they still run.
Flush_WhileRunning ==
    /\ job \in {"map", "reduce"} /\ main.pc \in {"par", "flush"} /\ main.flushes = 0
    /\ main' = [main EXCEPT !.pc = IF @ = "flush" THEN "compact" ELSE @,
                            !.flushes = main.flushes + 1]
    /\ UNCHANGED <<job, gen, storeVars, ser, next, thr, acc, outputDb, visits>>

\* output_db.flush()?, and main prints the counts.
Flush ==
    /\ job \in {"map", "reduce"} /\ main.pc = "flush"
    /\ main' = [main EXCEPT !.pc = "compact", !.flushes = main.flushes + 1]
    /\ UNCHANGED <<job, gen, storeVars, ser, next, thr, acc, outputDb, visits>>

\* output_db.compact_range_opt(None, None, ..), and main returns Ok(()).
Compaction ==
    /\ job \in {"map", "reduce"} /\ main.pc = "compact"
    /\ main' = [main EXCEPT !.pc = "done", !.compactions = main.compactions + 1]
    /\ UNCHANGED <<job, gen, storeVars, ser, next, thr, acc, outputDb, visits>>

\* The second run of the usage: --step reduce with the Map step's output store as
\* --db-dir and a new output store.
RunReduce ==
    /\ job = "map" /\ main.pc = "done"
    /\ job' = "reduce"
    /\ dbLeft' = outputDb
    /\ outputDb' = <<>>
    /\ main' = MainStart
    /\ next' = 0
    /\ acc' = AccZero
    /\ visits' = ZeroVisits(outputDb, <<>>)
    /\ UNCHANGED <<gen, dbRight, faultLeft, faultRight, sourceDb, ser, thr>>

MapReduceInit ==
    /\ job = "map"
    /\ gen = GenIdle
    /\ dbLeft \in SourceStores
    /\ dbRight = <<>>
    /\ faultLeft = 0 /\ faultRight = 0
    /\ sourceDb = dbLeft
    /\ ser = SerIdle
    /\ main = MainStart
    /\ next = 0
    /\ thr = [t \in Threads |-> WIdle]
    /\ acc = AccZero
    /\ outputDb = <<>>
    /\ visits = ZeroVisits(dbLeft, dbRight)

MapReduceNext ==
    \/ \E t \in Threads : MapTake(t)
    \/ \E t \in Threads : MapStep(t)
    \/ \E t \in Threads : ReduceTake(t)
    \/ \E t \in Threads : ReduceStep(t)
    \/ \E t \in Threads : Commit(t)
    \/ StepJoin
    \/ Flush
    \/ Compaction
    \/ RunReduce

SpecMapReduce == MapReduceInit /\ [][MapReduceNext]_vars

(***************************************************************************)
(* map-reduce: the Reduce step run on a store of its own                   *)
(***************************************************************************)

\* Most entries of a store the Reduce step is run on directly.
MaxIntermediateEntries == 3

\* Entries of such a store: keys "ab.1", "ab.1.5", "ab.2", "ab.c.3", "cd.1", "abx",
\* "g.1", "gh", "b"; values "r" .. "z".
IntermediateEntries ==
    {[key |-> <<97, 98, 46, 49>>, value |-> <<114>>],
     [key |-> <<97, 98, 46, 49, 46, 53>>, value |-> <<115>>],
     [key |-> <<97, 98, 46, 50>>, value |-> <<116>>],
     [key |-> <<97, 98, 46, 99, 46, 51>>, value |-> <<117>>],
     [key |-> <<99, 100, 46, 49>>, value |-> <<118>>],
     [key |-> <<97, 98, 120>>, value |-> <<119>>],
     [key |-> <<103, 46, 49>>, value |-> <<120>>],
     [key |-> <<103, 104>>, value |-> <<121>>],
     [key |-> <<98>>, value |-> <<122>>]}

IntermediateStores ==
    {StoreOfEntries(S) :
        S \in {T \in SUBSET IntermediateEntries : Cardinality(T) <= MaxIntermediateEntries}}

ReduceInit ==
    /\ job = "reduce"
    /\ gen = GenIdle
    /\ dbLeft \in IntermediateStores
    /\ dbRight = <<>>
    /\ faultLeft = 0 /\ faultRight = 0
    /\ sourceDb = <<>>
    /\ ser = SerIdle
    /\ main = MainStart
    /\ next = 0
    /\ thr = [t \in Threads |-> WIdle]
    /\ acc = AccZero
    /\ outputDb = <<>>
    /\ visits = ZeroVisits(dbLeft, dbRight)

ReduceNext ==
    \/ \E t \in Threads : ReduceTake(t)
    \/ \E t \in Threads : ReduceStep(t)
    \/ \E t \in Threads : Commit(t)
    \/ StepJoin
    \/ Flush
    \/ Compaction

SpecReduce == ReduceInit /\ [][ReduceNext]_vars

(***************************************************************************)
(* map-reduce: a step run again on the same stores                         *)
(***************************************************************************)

\* Most entries of a source store on which a step is run twice.
MaxRerunEntries == 2

\* The same command once more: the same input, the output store as the first run
\* left it.
Rerun ==
    /\ job \in {"map", "reduce"} /\ main.pc = "done" /\ main.run = 1
    /\ main' = [MainStart EXCEPT !.run = 2, !.kept = outputDb]
    /\ next' = 0
    /\ acc' = AccZero
    /\ visits' = ZeroVisits(dbLeft, dbRight)
    /\ UNCHANGED <<job, gen, storeVars, ser, thr, outputDb>>

RerunInit == MapReduceInit /\ Len(dbLeft) <= MaxRerunEntries

RerunNext ==
    \/ MapReduceNext
    \/ Rerun

SpecRerun == RerunInit /\ [][RerunNext]_vars

(***************************************************************************)
(* Properties of the two-pointer programs                                  *)
(***************************************************************************)

HexDigitSet == {HexDigits[i] : i \in 1..Len(HexDigits)}

\* The key starts with w lowercase hex digits.
HexPrefixed(key, w) == Len(key) >= w /\ \A i \in 1..w : key[i] \in HexDigitSet

HexKeys(db, w) == {k \in KeysOf(db) : HexPrefixed(k, w)}

CommonKeys == KeysOf(dbLeft) \cap KeysOf(dbRight)

\* C1: when the two-pointer loop and both drain loops of two-pointer-serial have
\* finished on two stores that are read without error, count_left = |L|,
\* count_right = |R| and count_intersection = |L \cap R|, and the unique counts are
\* |L \ R| and |R \ L|.
C1_SerialMergeCounts ==
    ser.pc = "done" =>
        /\ ser.count_left = Cardinality(KeysOf(dbLeft))
        /\ ser.count_right = Cardinality(KeysOf(dbRight))
        /\ ser.count_intersection = Cardinality(CommonKeys)
        /\ ser.count_left_unique + ser.count_intersection = Cardinality(KeysOf(dbLeft))
        /\ ser.count_right_unique + ser.count_intersection = Cardinality(KeysOf(dbRight))
        /\ ser.count_left_unique = Cardinality(KeysOf(dbLeft) \ KeysOf(dbRight))
        /\ ser.count_right_unique = Cardinality(KeysOf(dbRight) \ KeysOf(dbLeft))

\* The serial merge has finished on interleaved stores: a common key and a key of
\* its own on each side.
C1_Witness ==
    /\ ser.pc = "done"
    /\ ser.count_intersection >= 1
    /\ ser.count_left_unique >= 1
    /\ ser.count_right_unique >= 1

Held(item) == IF item.tag = "Ok" THEN 1 ELSE 0

Running(w) == w.pc \in {"merge", "drainL", "drainR"}

\* Every entry a cursor has yielded is the front it still holds or was counted when
\* the cursor moved past it: in the serial merge, and in every closure that runs.
C2_CountedWhenPassed ==
    /\ ser.pc \in {"merge", "drainL", "drainR", "report", "done"} =>
        /\ ser.count_left = ser.iterL.pos - 1 - Held(ser.itemL)
        /\ ser.count_right = ser.iterR.pos - 1 - Held(ser.itemR)
    /\ \A t \in Threads : Running(thr[t]) =>
        /\ thr[t].count_left =
               thr[t].iterL.pos - SeekIndex(dbLeft, thr[t].prefix) - Held(thr[t].itemL)
        /\ thr[t].count_right =
               thr[t].iterR.pos - SeekIndex(dbRight, thr[t].prefix) - Held(thr[t].itemR)

\* A step of the two-pointer loop from w to v keeps the front (and the cursor) of the
\* side whose key is the larger, and moves a cursor by one entry only when its front
\* is the smaller key or equals the other front.
RetainsFront(w, v) ==
    LET bl == w.itemL.key
        br == w.itemR.key
    IN  /\ LexLess(bl, br) => v.itemR = w.itemR /\ v.iterR = w.iterR
        /\ LexLess(br, bl) => v.itemL = w.itemL /\ v.iterL = w.iterL
        /\ v.iterL # w.iterL => ~LexLess(br, bl) /\ v.count_left = w.count_left + 1
        /\ v.iterR # w.iterR => ~LexLess(bl, br) /\ v.count_right = w.count_right + 1
        /\ v.iterL.pos \in {w.iterL.pos, w.iterL.pos + 1}
        /\ v.iterR.pos \in {w.iterR.pos, w.iterR.pos + 1}
        /\ v.pc = "merge" => v.itemL.tag = "Ok" /\ v.itemR.tag = "Ok"

C2_StepRetains ==
    /\ ser.pc = "merge" /\ ser' # ser => RetainsFront(ser, ser')
    /\ \A t \in Threads :
           thr[t].pc = "merge" /\ thr'[t] # thr[t] /\ Running(thr'[t]) =>
               RetainsFront(thr[t], thr'[t])

\* C2: in every step of the two-pointer loop (serial and per partition) the front of
\* the side that is not chosen to advance is left unchanged and is the entry compared
\* in the next step; a cursor advances only when its front was the smaller key or
\* equal to the other front; every entry a cursor moves past is counted, once.
C2_MergeStateRetention == [][C2_StepRetains]_vars /\ []C2_CountedWhenPassed

\* A closure and the serial merge are in the two-pointer loop after a step that
\* advanced the left cursor only: the right front is compared a second time.
C2_Witness ==
    /\ \E t \in Threads :
           /\ thr[t].pc = "merge"
           /\ thr[t].count_left = 1 /\ thr[t].count_right = 0
           /\ thr[t].itemR.tag = "Ok" /\ thr[t].itemL.key = thr[t].itemR.key
    /\ ser.pc = "done" /\ ser.count_intersection = 1 /\ ser.count_left = 2

PartitionedDone == job = "merge" /\ main.pc = "done"

\* C3 as claimed: the totals of the partitioned merge equal those of the serial merge
\* of the same stores.
C3_Original_TotalsAgree ==
    PartitionedDone =>
        /\ acc.count_left = ser.count_left
        /\ acc.count_right = ser.count_right
        /\ acc.count_intersection = ser.count_intersection

AllHexPrefixed(w) ==
    /\ KeysOf(dbLeft) = HexKeys(dbLeft, w)
    /\ KeysOf(dbRight) = HexKeys(dbRight, w)

\* C3 (amended): the partitioned merge counts the entries whose key starts with
\* MergeWidth lowercase hex digits and no others, so its totals are the serial totals
\* less the entries without such a prefix; on stores all of whose keys have one, the
\* partitioned run completes and the totals and unique counts of the two programs are
\* equal.
C3_TotalsAgreeOnHexKeys ==
    /\ PartitionedDone =>
        /\ acc.count_left =
               ser.count_left - Cardinality(KeysOf(dbLeft) \ HexKeys(dbLeft, MergeWidth))
        /\ acc.count_right =
               ser.count_right - Cardinality(KeysOf(dbRight) \ HexKeys(dbRight, MergeWidth))
        /\ acc.count_intersection =
               ser.count_intersection
                   - Cardinality(CommonKeys \ HexKeys(dbLeft, MergeWidth))
    /\ AllHexPrefixed(MergeWidth) =>
        /\ ~main.panicked /\ main.pc # "panic"
        /\ PartitionedDone =>
            /\ acc.count_left = ser.count_left
            /\ acc.count_right = ser.count_right
            /\ acc.count_intersection = ser.count_intersection
            /\ main.count_left_unique = ser.count_left_unique
            /\ main.count_right_unique = ser.count_right_unique

\* Both programs have finished on stores of hex-prefixed keys that share a key and
\* have keys of their own in another partition.
C3_Witness ==
    /\ PartitionedDone
    /\ AllHexPrefixed(MergeWidth)
    /\ acc.count_intersection >= 1
    /\ main.count_left_unique >= 1
    /\ main.count_right_unique >= 1

(***************************************************************************)
(* Properties of the partitioned scan                                      *)
(***************************************************************************)

ScanDone == job = "scan" /\ main.pc = "done"

\* C4 as claimed: the sum of the per-partition counts equals the number of entries a
\* full iteration of the store sees.
C4_Original_ScanCountsAll == ScanDone => acc.count = Len(dbLeft)

\* C4 (amended): a scan that completes returns the number of entries whose key starts
\* with ScanWidth lowercase hex digits; on a store read without error all of whose
\* keys do, the scan completes and the sum equals the count of a full iteration.
C4_ScanCountsHexKeys ==
    /\ ScanDone => acc.count = Cardinality(HexKeys(dbLeft, ScanWidth))
    /\ job = "scan" /\ faultLeft = 0 /\ KeysOf(dbLeft) = HexKeys(dbLeft, ScanWidth) =>
        /\ ~main.panicked /\ main.pc # "panic"
        /\ ScanDone => acc.count = Len(dbLeft)

\* A scan has completed on a store with two keys in one partition, all hex-prefixed.
C4_Witness ==
    /\ ScanDone
    /\ KeysOf(dbLeft) = HexKeys(dbLeft, ScanWidth)
    /\ acc.count = 2
    /\ \E i, j \in 1..Len(dbLeft) :
           i # j /\ SubSeq(dbLeft[i].key, 1, ScanWidth) = SubSeq(dbLeft[j].key, 1, ScanWidth)

(***************************************************************************)
(* Properties of the prefix partitioning                                   *)
(***************************************************************************)

VisitsOf(side, i) == IF side = "left" THEN visits.left[i] ELSE visits.right[i]

StoreOf(side) == IF side = "left" THEN dbLeft ELSE dbRight

Sides == {"left", "right"}

RECURSIVE IsPow16(_, _)
IsPow16(len, n) ==
    IF n = 0 THEN len = 1
    ELSE len % HexBase = 0 /\ IsPow16(len \div HexBase, n - 1)

\* out lists every hex string of length n once, in increasing order.
ListsAllPrefixes(out, n) ==
    /\ IsPow16(Len(out), n)
    /\ \A i \in 1..Len(out) : Len(out[i]) = n /\ \A j \in 1..n : out[i][j] \in HexDigitSet
    /\ \A i \in 1..(Len(out) - 1) : LexLess(out[i], out[i + 1])
    /\ {out[i] : i \in 1..Len(out)} = [1..n -> HexDigitSet]

\* C6 as claimed: for every width n >= 1 the call returns the 16^n hex strings of
\* length n, distinct and in increasing order.
C6_Original_EveryWidth ==
    gen.pc \in {"done", "panic"} /\ gen.n >= 1 =>
        gen.pc = "done" /\ ListsAllPrefixes(gen.out, gen.n)

\* C6 (amended): for every width n >= 1 with 16^n < 2^64 (n <= 15) the call returns
\* exactly 16^n strings, each of length n over the lowercase hex alphabet, pairwise
\* distinct and in strictly increasing byte order: every length-n hex prefix once.
C6_PartitionCover ==
    gen.n >= 1 /\ ~Pow16Overflows(gen.n) =>
        /\ gen.pc # "panic"
        /\ gen.pc = "done" =>
            /\ ListsAllPrefixes(gen.out, gen.n)
            /\ gen.out = GenerateConsecutiveHexStrings(gen.n)

\* The call has returned for the largest enumerated width.
C6_Witness == gen.pc = "done" /\ gen.n = MaxGenWidth /\ Len(gen.out) > HexBase

(***************************************************************************)
(* Properties of map-reduce                                                *)
(***************************************************************************)

EntriesOf(db) == {db[i] : i \in 1..Len(db)}

\* The text of a value all of whose bytes are ASCII is the value.
TextOf(v) == IF \A i \in 1..Len(v) : v[i] < 128 THEN v ELSE FromUtf8Lossy(v)

\* The lowercase hex digits of the bytes of k, two per byte.
HexText(k) ==
    [i \in 1..(2 * Len(k)) |->
        LET b == k[(i + 1) \div 2]
        IN  HexDigits[(IF i % 2 = 1 THEN b \div HexBase ELSE b % HexBase) + 1]]

\* The entries of the source store the Map step reaches.
MappedSource == {e \in EntriesOf(sourceDb) : HexPrefixed(e.key, MapWidth)}

ExpectedMapped ==
    {[key |-> TextOf(e.value) \o <<Dot>> \o HexText(e.key), value |-> e.key] :
        e \in MappedSource}

MapFinished == job = "map" /\ main.pc \in {"flush", "compact", "done"}

ReduceDone == job = "reduce" /\ main.pc = "done"

\* C8 as claimed: every source entry is mapped, and the count is the number of
\* source entries.
C8_Original_EverySourceEntry ==
    MapFinished =>
        /\ acc.count = Len(sourceDb)
        /\ \A e \in EntriesOf(sourceDb) :
               \E o \in EntriesOf(outputDb) :
                   o.key = TextOf(e.value) \o <<Dot>> \o HexText(e.key) /\ o.value = e.key

\* C8 (amended): the Map step puts entries only for source entries whose key starts
\* with MapWidth lowercase hex digits, each with the key text(value) '.' hex(key) and
\* the original key as its value; when the step completes it has put exactly one
\* entry for each of them and the returned count is their number.
C8_MapEncoding ==
    job = "map" =>
        /\ EntriesOf(outputDb) \subseteq ExpectedMapped
        /\ \A t \in Threads : \A i \in 1..Len(thr[t].write_batch) :
               thr[t].write_batch[i] \in ExpectedMapped
        /\ MapFinished =>
               /\ EntriesOf(outputDb) = ExpectedMapped
               /\ Len(outputDb) = Cardinality(MappedSource)
               /\ acc.count = Cardinality(MappedSource)

\* The Map step has completed on a store with two keys it maps, one of them with a
\* value that is not ASCII, and a key it does not reach.
C8_Witness ==
    /\ MapFinished
    /\ Len(sourceDb) = 3 /\ Len(outputDb) = 2 /\ acc.count = 2
    /\ \E e \in MappedSource : TextOf(e.value) # e.value

\* C9: the puts of the Map step have pairwise distinct keys: within a batch, and
\* between a batch and the output store, so no put overwrites another and the output
\* store holds as many entries as the closures that committed have counted.
C9_MapKeysUnique ==
    job = "map" =>
        /\ Len(outputDb) = acc.count
        /\ \A t \in Threads :
               LET b == thr[t].write_batch
               IN  /\ Len(b) = thr[t].count
                   /\ \A i, j \in 1..Len(b) : b[i].key = b[j].key => i = j
                   /\ \A i \in 1..Len(b) : b[i].key \notin KeysOf(outputDb)

\* The Map step has completed on three entries that share the text of their value.
C9_Witness ==
    /\ MapFinished
    /\ Len(outputDb) = 3 /\ acc.count = 3
    /\ \A e, f \in EntriesOf(sourceDb) : TextOf(e.value) = TextOf(f.value)

\* The pieces of s between the occurrences of sep.
RECURSIVE Pieces(_, _)
Pieces(s, sep) ==
    LET S == {i \in 1..Len(s) : s[i] = sep}
    IN  IF S = {} THEN {s}
        ELSE LET i == CHOOSE x \in S : \A y \in S : x <= y
             IN  {SubSeq(s, 1, i - 1)} \cup Pieces(SubSeq(s, i + 1, Len(s)), sep)

SourceValues == {e.value : e \in EntriesOf(sourceDb)}

\* C7, for a source store of hex keys (every key starts with MapWidth lowercase hex
\* digits, the stores the program is written for): after Map then Reduce the number
\* of groups is the number of distinct source values, the number of entries processed
\* is the number of source entries, and for each source value the output store holds
\* one entry with that key whose value splits on '|' into the keys that had the value.
C7_RoundTrip ==
    ReduceDone /\ MappedSource = EntriesOf(sourceDb) =>
        /\ acc.count_grouped = Cardinality(SourceValues)
        /\ acc.count = Len(sourceDb)
        /\ Len(outputDb) = Cardinality(SourceValues)
        /\ \A v \in SourceValues :
               \E o \in EntriesOf(outputDb) :
                   /\ o.key = v
                   /\ Pieces(o.value, Pipe) =
                          {e.key : e \in {f \in EntriesOf(sourceDb) : f.value = v}}

\* The grouping key of an intermediate key: the bytes before its last '.'.
GroupingKey(key) == SubSeq(key, 1, RPosition(key, Dot) - 1)

\* The values of the entries of db with the grouping key g, in key order.
RECURSIVE GroupValues(_, _)
GroupValues(db, g) ==
    IF db = <<>> THEN <<>>
    ELSE (IF RPosition(Head(db).key, Dot) # 0 /\ GroupingKey(Head(db).key) = g
          THEN <<Head(db).value>> ELSE <<>>) \o GroupValues(Tail(db), g)

\* C10: in the Reduce step each grouping key is put at most once over the whole run,
\* and the value put for it is the whole group.
C10_GroupsNeverSplit ==
    job = "reduce" =>
        /\ \A t \in Threads :
               LET b == thr[t].write_batch
               IN  /\ \A i, j \in 1..Len(b) : b[i].key = b[j].key => i = j
                   /\ \A i \in 1..Len(b) : b[i].key \notin KeysOf(outputDb)
        /\ \A o \in EntriesOf(outputDb) : o.value = Join(GroupValues(dbLeft, o.key), Pipe)

(***************************************************************************)
(* Properties of the Reduce closure                                        *)
(***************************************************************************)

\* The entries of db from index a to index b.
Entries(db, a, b) == IF a > b THEN <<>> ELSE SubSeq(db, a, b)

\* The entries the closure w has been through the loop body with: from its seek
\* position to the entry before the one it holds (or before the end of the store).
Processed(w) ==
    Entries(dbLeft, SeekIndex(dbLeft, w.prefix),
            IF w.itemL.tag = "Ok" THEN w.iterL.pos - 2 ELSE w.iterL.pos - 1)

\* The maximal runs of consecutive entries with one grouping key: for each, the
\* grouping key and the values of the run joined by '|' in their order.
RECURSIVE Runs(_)
Runs(es) ==
    IF es = <<>> THEN <<>>
    ELSE LET r == Runs(SubSeq(es, 1, Len(es) - 1))
             e == es[Len(es)]
             g == GroupingKey(e.key)
         IN  IF r # <<>> /\ r[Len(r)].key = g
             THEN [r EXCEPT ![Len(r)].value = @ \o <<Pipe>> \o e.value]
             ELSE Append(r, [key |-> g, value |-> e.value])

\* The values of the last run of es.
RECURSIVE LastRunValues(_)
LastRunValues(es) ==
    IF es = <<>> THEN <<>>
    ELSE LET f == SubSeq(es, 1, Len(es) - 1)
             e == es[Len(es)]
         IN  IF f # <<>> /\ GroupingKey(f[Len(f)].key) = GroupingKey(e.key)
             THEN Append(LastRunValues(f), e.value)
             ELSE <<e.value>>

\* C11: in a Reduce partition the batch holds one put for each finished group, in
\* scan order, with the group's grouping key and its values joined by '|'; the open
\* group is held apart in blobs_vec and put once at the end of the partition.
C11_GroupFlush ==
    job = "reduce" =>
        \A t \in Threads :
            LET w == thr[t]
                runs == Runs(Processed(w))
            IN  /\ w.pc = "loop" =>
                    /\ w.write_batch = SubSeq(runs, 1, Len(runs) - 1)
                    /\ w.blobs_vec = LastRunValues(Processed(w))
                    /\ runs # <<>> => w.prev_key = runs[Len(runs)].key
                /\ w.pc = "commit" => w.write_batch = runs

\* A Reduce closure is at the end of a partition with three entries in two groups:
\* a group of two entries and a group of one.
C11_Witness ==
    /\ job = "reduce"
    /\ \E t \in Threads :
           /\ thr[t].pc = "commit"
           /\ thr[t].count = 3
           /\ Len(thr[t].write_batch) = 2
           /\ \E i \in 1..2 : \E j \in 1..Len(thr[t].write_batch[i].value) :
                  thr[t].write_batch[i].value[j] = Pipe

(***************************************************************************)
(* Properties of the handling of store errors                              *)
(***************************************************************************)

\* next() of the iterator has returned an Err.
ErrSeen(it) == it.done /\ it.fault # 0 /\ it.pos >= it.fault

\* The entries of a store that are read without error.
Readable(db, fault) == IF fault = 0 THEN Len(db) ELSE fault - 1

\* C12: once an iterator has yielded an Err, the run reports no result: the serial
\* merge does not get to its report and no partitioned program gets past its
\* reduction; and an Err item is never counted as an entry.
C12_FailFast ==
    /\ ser.pc \in {"report", "done"} => ~ErrSeen(ser.iterL) /\ ~ErrSeen(ser.iterR)
    /\ ser.count_left <= Readable(dbLeft, faultLeft)
    /\ ser.count_right <= Readable(dbRight, faultRight)
    /\ main.pc \in {"flush", "compact", "done"} => ~main.errors

(***************************************************************************)
(* Properties of the Reduce step on malformed keys                         *)
(***************************************************************************)

\* The entries of the Reduce step's input whose key has no '.'.
NoDotEntries == {e \in EntriesOf(dbLeft) : RPosition(e.key, Dot) = 0}

\* Those of them whose key starts with ReduceWidth lowercase hex digits.
MalformedEntries == {e \in NoDotEntries : HexPrefixed(e.key, ReduceWidth)}

ReduceFinished == job = "reduce" /\ main.pc \in {"flush", "compact", "done"}

AllClosuresOver ==
    next = Len(ReducePrefixes) /\ \A t \in Threads : thr[t].pc = "idle"

C14_ZeroWidthRejected == gen.n = 0 => gen.pc # "done" /\ gen.out = <<>>

(***************************************************************************)
(* Properties of the Map step on values with the separator                 *)
(***************************************************************************)

\* The part of a mapped key before the '.' and the hex digits of the source key,
\* which is the mapped entry's value.
ValuePart(o) == SubSeq(o.key, 1, Len(o.key) - 1 - 2 * Len(o.value))

HasDot(s) == \E i \in 1..Len(s) : s[i] = Dot

\* C15: no entry is put by the Map step, into a batch or into the output store,
\* whose key has a '.' in its value part: a source value with a '.' is rejected or
\* the byte is escaped.
C15_SeparatorRejectedOrEscaped ==
    job = "map" =>
        /\ \A t \in Threads : \A i \in 1..Len(thr[t].write_batch) :
               ~HasDot(ValuePart(thr[t].write_batch[i]))
        /\ \A o \in EntriesOf(outputDb) : ~HasDot(ValuePart(o))

(***************************************************************************)
(* Properties of the flush and the compaction                              *)
(***************************************************************************)

\* Every closure of the running step has returned (and so has committed its batch).
AllPartitionsOver ==
    /\ next = Len(IF job = "map" THEN MapPrefixes ELSE ReducePrefixes)
    /\ \A t \in Threads : thr[t].pc = "idle"

\* C16: in a run of Map or of Reduce the flush and the compaction of the output
\* store are each issued at most once, the flush only after every closure has
\* returned (having committed its batch) and the compaction only after the flush; a
\* run that completes has issued each exactly once.
C16_FlushCompactionOrder ==
    job \in {"map", "reduce"} =>
        /\ main.flushes <= 1 /\ main.compactions <= 1
        /\ main.flushes = 1 => AllPartitionsOver
        /\ main.compactions = 1 => main.flushes = 1
        /\ main.pc = "compact" => main.flushes = 1 /\ main.compactions = 0
        /\ main.pc = "done" => main.flushes = 1 /\ main.compactions = 1
        /\ main.pc \in {"par", "flush", "panic"} => main.flushes = 0 /\ main.compactions = 0

\* The Reduce step has completed, after closures have committed groups, with one
\* flush and one compaction.
C16_Witness ==
    /\ job = "reduce" /\ main.pc = "done"
    /\ main.flushes = 1 /\ main.compactions = 1
    /\ Len(outputDb) >= 2

(***************************************************************************)
(* Properties of the commit of a partition                                 *)
(***************************************************************************)

StepWidth == IF job = "map" THEN MapWidth ELSE ReduceWidth

\* The prefixes that some key of the step's input starts with.
UsedPrefixes ==
    {SubSeq(e.key, 1, StepWidth) : e \in {f \in EntriesOf(dbLeft) : HexPrefixed(f.key, StepWidth)}}

\* The entries of the step's input in the partition of prefix p, in key order.
InPartition(p) ==
    SelectSeq(dbLeft, LAMBDA e : Len(e.key) >= StepWidth /\ SubSeq(e.key, 1, StepWidth) = p)

\* The entries the partition of prefix p leaves in an empty output store: in Map one
\* for each of its source entries, in Reduce one for each of its grouping keys.
PartitionWrites(p) ==
    IF job = "map"
    THEN {o \in ExpectedMapped : SubSeq(o.value, 1, MapWidth) = p}
    ELSE EntriesOf(WriteBatchApply(<<>>, Runs(InPartition(p))))

\* The entries of the output store that the partition of prefix p has written: in
\* Map those whose value (the source key) has the prefix, in Reduce those whose key
\* (the grouping key) has it.
WrittenBy(p) ==
    {o \in EntriesOf(outputDb) :
        LET k == IF job = "map" THEN o.value ELSE o.key
        IN  Len(k) >= StepWidth /\ SubSeq(k, 1, StepWidth) = p}

\* The output store holds all of the writes of each partition or none of them, and
\* none of the puts a closure still holds in its batch.
C17_AllOrNone ==
    job \in {"map", "reduce"} =>
        /\ \A p \in UsedPrefixes : WrittenBy(p) = {} \/ WrittenBy(p) = PartitionWrites(p)
        /\ \A t \in Threads :
               /\ thr[t].pc = "loop" => WrittenBy(thr[t].prefix) = {}
               /\ thr[t].pc = "commit" =>
                      /\ WrittenBy(thr[t].prefix) = {}
                      /\ LoopPcAt(thr[t].prefix, thr[t].itemL) = "exit"

\* The output store changes only by the commit of one closure, which writes its
\* whole batch and returns.
C17_CommitStep ==
    job' = job /\ outputDb' # outputDb =>
        \E t \in Threads :
            /\ thr[t].pc = "commit" /\ thr'[t].pc = "idle"
            /\ \A u \in Threads \ {t} : thr'[u] = thr[u]
            /\ \E p \in {thr[t].prefix} : WrittenBy(p)' = PartitionWrites(p)
            /\ EntriesOf(outputDb) \subseteq EntriesOf(outputDb')

\* C17: each Map or Reduce closure gathers its puts in its own batch and commits it
\* once, after its loop has ended; at every point of every interleaving the output
\* store holds, for each partition, all of its writes or none.
C17_AtomicCommit == []C17_AllOrNone /\ [][C17_CommitStep]_vars

\* A closure has committed the two puts of its partition while the closure of
\* another partition still holds its batch.
C17_Witness ==
    /\ job = "map"
    /\ Len(outputDb) = 2
    /\ \E p \in UsedPrefixes : Cardinality(WrittenBy(p)) = 2
    /\ \E t \in Threads : thr[t].pc \in {"loop", "commit"}

(***************************************************************************)
(* Properties of the order of the partitions                               *)
(***************************************************************************)

\* A closure run from w to its end without any other step in between.
RECURSIVE MapRun(_)
MapRun(w) == IF w.pc = "loop" THEN MapRun(MapBody(w)) ELSE w

RECURSIVE ReduceRun(_)
ReduceRun(w) == IF w.pc = "loop" THEN ReduceRun(ReduceBody(w)) ELSE w

\* The closure of the i-th prefix of the running step, run alone.
RunAlone(i) ==
    IF job = "map" THEN MapRun(MapEnter(MapPrefixes[i]))
    ELSE ReduceRun(ReduceEnter(ReducePrefixes[i]))

\* The closures of the prefixes lo..hi run one after the other in the order of the
\* list: their puts in that order, their counts summed, and whether one panicked.
RECURSIVE InOrder(_, _)
InOrder(lo, hi) ==
    IF lo = hi
    THEN LET w == RunAlone(lo)
         IN  [batch |-> IF w.pc = "panic" THEN <<>> ELSE w.write_batch,
              counts |-> IF w.pc = "panic" THEN AccZero ELSE Combine(AccZero, w),
              panicked |-> w.pc = "panic"]
    ELSE LET mid == (lo + hi) \div 2
             a == InOrder(lo, mid)
             b == InOrder(mid + 1, hi)
         IN  [batch |-> a.batch \o b.batch,
              counts |-> [f \in DOMAIN AccZero |-> a.counts[f] + b.counts[f]],
              panicked |-> a.panicked \/ b.panicked]

StepFinished == job \in {"map", "reduce"} /\ main.pc \in {"flush", "compact", "done"}

\* C18: whatever the order in which the closures ran, committed and were combined,
\* a step that completes has the counts and the output store of the run of its
\* closures one after the other in the order of the prefix list.
C18_OrderIndependence ==
    StepFinished =>
        LET r == InOrder(1, Len(IF job = "map" THEN MapPrefixes ELSE ReducePrefixes))
        IN  /\ ~r.panicked
            /\ acc = r.counts
            /\ outputDb = WriteBatchApply(<<>>, r.batch)

\* The Reduce step has completed with the groups of two partitions, which were
\* committed in either order.
C18_Witness ==
    /\ StepFinished /\ job = "reduce"
    /\ Cardinality({p \in UsedPrefixes : WrittenBy(p) # {}}) = 2
    /\ acc.count = 3

(***************************************************************************)
(* Properties of a second run                                              *)
(***************************************************************************)

\* C19 as claimed: a second run of a step on the same input and the same output
\* store changes the output store.
C19_Original_RerunChangesStore ==
    main.run = 2 /\ main.pc = "done" /\ main.kept # <<>> => outputDb # main.kept

\* C19 (amended): during and after a second run of the Map step or of the Reduce
\* step on the same input and the same output store, the output store is as the
\* first run left it: every put replaces the entry of its key by an equal one, and
\* no duplicate entry arises.
C19_RerunKeepsStore ==
    main.run = 2 =>
        /\ outputDb = main.kept
        /\ \A i, j \in 1..Len(outputDb) : outputDb[i].key = outputDb[j].key => i = j

\* The Reduce step has completed a second time on a store with a group of two
\* entries.
C19_Witness ==
    /\ job = "reduce" /\ main.run = 2 /\ main.pc = "done"
    /\ acc.count = 2 /\ acc.count_grouped = 1
    /\ Len(outputDb) = 1

(***************************************************************************)
(* Properties of the drain loops                                           *)
(***************************************************************************)

\* The side a drain loop does not read is over: its item is not an entry, or, in a
\* closure, an entry outside the prefix.
SideOver(item, prefix) ==
    item.tag # "Ok" \/ (~SliceOutOfRange(item.key, prefix) /\ PrefixDiffers(item.key, prefix))

\* The counts of a drain step: side a grows by one, side b and the common count stay.
DrainCounts(a0, a1, b0, b1, c0, c1) == a1 = a0 + 1 /\ b1 = b0 /\ c1 = c0

\* In a drain loop the other side is over and the item is an entry of the drained
\* side (in a closure, one with the prefix); with an empty right store the finished
\* runs have count_right = 0, count_intersection = 0 and count_left = |L| (serial),
\* the entries of L with a hex prefix (partitioned).
C20_DrainState ==
    /\ ser.pc = "drainL" => ser.itemR.tag = "None" /\ ser.itemL.tag = "Ok"
    /\ ser.pc = "drainR" => ser.itemL.tag = "None" /\ ser.itemR.tag = "Ok"
    /\ \A t \in Threads :
        /\ job = "merge" /\ thr[t].pc = "drainL" =>
               /\ SideOver(thr[t].itemR, thr[t].prefix)
               /\ thr[t].itemL = OkItem(dbLeft[thr[t].iterL.pos - 1])
               /\ ~SideOver(thr[t].itemL, thr[t].prefix)
        /\ job = "merge" /\ thr[t].pc = "drainR" =>
               /\ SideOver(thr[t].itemL, thr[t].prefix)
               /\ thr[t].itemR = OkItem(dbRight[thr[t].iterR.pos - 1])
               /\ ~SideOver(thr[t].itemR, thr[t].prefix)
    /\ dbRight = <<>> /\ ser.pc = "done" =>
           /\ ser.count_left = Len(dbLeft)
           /\ ser.count_right = 0 /\ ser.count_intersection = 0
    /\ dbRight = <<>> /\ PartitionedDone =>
           /\ acc.count_left = Cardinality(HexKeys(dbLeft, MergeWidth))
           /\ acc.count_right = 0 /\ acc.count_intersection = 0

\* A step of a drain loop counts the entry under the cursor once, for its side
\* only.  A closure that returns in the step hands its counts to the reduction; the
\* counts of one that panics are lost with the run.
C20_DrainStep ==
    /\ ser.pc = "drainL" /\ ser' # ser =>
           DrainCounts(ser.count_left, ser'.count_left, ser.count_right, ser'.count_right,
                       ser.count_intersection, ser'.count_intersection)
    /\ ser.pc = "drainR" /\ ser' # ser =>
           DrainCounts(ser.count_right, ser'.count_right, ser.count_left, ser'.count_left,
                       ser.count_intersection, ser'.count_intersection)
    /\ \A t \in Threads :
        \E w \in {thr[t]} :
            /\ job = "merge" /\ w.pc = "drainL" /\ thr'[t] # w =>
                   /\ visits'.right = visits.right
                   /\ visits'.left = [visits.left EXCEPT ![w.iterL.pos - 1] = @ + 1]
                   /\ thr'[t].pc # "idle" =>
                          DrainCounts(w.count_left, thr'[t].count_left,
                                      w.count_right, thr'[t].count_right,
                                      w.count_intersection, thr'[t].count_intersection)
                   /\ thr'[t].pc = "idle" /\ acc' # acc =>
                          DrainCounts(acc.count_left + w.count_left, acc'.count_left,
                                      acc.count_right + w.count_right, acc'.count_right,
                                      acc.count_intersection + w.count_intersection,
                                      acc'.count_intersection)
            /\ job = "merge" /\ w.pc = "drainR" /\ thr'[t] # w =>
                   /\ visits'.left = visits.left
                   /\ visits'.right = [visits.right EXCEPT ![w.iterR.pos - 1] = @ + 1]
                   /\ thr'[t].pc # "idle" =>
                          DrainCounts(w.count_right, thr'[t].count_right,
                                      w.count_left, thr'[t].count_left,
                                      w.count_intersection, thr'[t].count_intersection)
                   /\ thr'[t].pc = "idle" /\ acc' # acc =>
                          DrainCounts(acc.count_right + w.count_right, acc'.count_right,
                                      acc.count_left + w.count_left, acc'.count_left,
                                      acc.count_intersection + w.count_intersection,
                                      acc'.count_intersection)

\* C20: once one side's cursor is exhausted (in a closure: exhausted or out of the
\* prefix), each step of a drain loop counts one remaining entry of the other side
\* (in a closure: one with the prefix) once, for that side only, and changes neither
\* count_intersection nor the count of the side that is over; a left store of
\* MaxEntries keys against an empty right store gives left = MaxEntries, right = 0,
\* intersection = 0.
C20_DrainPhase == []C20_DrainState /\ [][C20_DrainStep]_vars

\* Both programs have drained a left store of MaxEntries keys against an empty
\* right store, the partitioned one within one closure.
C20_Witness ==
    /\ PartitionedDone
    /\ dbRight = <<>> /\ Len(dbLeft) = MaxEntries
    /\ KeysOf(dbLeft) = {<<48, 48>>, <<48, 48, 103>>}
    /\ ser.count_left = MaxEntries /\ ser.count_right = 0 /\ ser.count_intersection = 0
    /\ acc.count_left = MaxEntries /\ acc.count_right = 0 /\ acc.count_intersection = 0
    /\ visits.left = [i \in 1..MaxEntries |-> 1]

(***************************************************************************)
(* Properties of the unique counts                                         *)
(***************************************************************************)

\* c holds no more common entries than entries of either side.
CommonWithin(c) ==
    c.count_intersection <= c.count_left /\ c.count_intersection <= c.count_right

\* C21: in every state of two-pointer-serial and of every closure of
\* two-pointer-parallel, and for the totals of the reduction, count_intersection <=
\* count_left and count_intersection <= count_right; so neither subtraction of the
\* unique counts goes below 0: main neither panics on it nor prints a wrapped value,
\* and the unique counts are total - intersection.
C21_SubtractionSafe ==
    /\ CommonWithin(ser)
    /\ \A t \in Threads : CommonWithin(thr[t])
    /\ CommonWithin(acc)
    /\ ser.pc = "done" =>
           /\ ser.count_left_unique = ser.count_left - ser.count_intersection
           /\ ser.count_right_unique = ser.count_right - ser.count_intersection
           /\ ser.count_left_unique >= 0 /\ ser.count_right_unique >= 0
    /\ job = "merge" /\ main.pc = "panic" => main.panicked
    /\ PartitionedDone =>
           /\ main.count_left_unique = acc.count_left - acc.count_intersection
           /\ main.count_right_unique = acc.count_right - acc.count_intersection
           /\ main.count_left_unique >= 0 /\ main.count_right_unique >= 0

\* Both programs have finished on two stores with the same two keys in two
\* partitions: every count equals the common count and the unique counts are 0.
C21_Witness ==
    /\ PartitionedDone
    /\ KeysOf(dbLeft) = {<<48, 48>>, <<97, 49>>} /\ KeysOf(dbRight) = KeysOf(dbLeft)
    /\ ser.count_intersection = 2 /\ ser.count_left = 2 /\ ser.count_right = 2
    /\ acc.count_intersection = 2 /\ acc.count_left = 2 /\ acc.count_right = 2
    /\ main.count_left_unique = 0 /\ main.count_right_unique = 0
    /\ ser.count_left_unique = 0 /\ ser.count_right_unique = 0

(***************************************************************************)
(* Properties of the prefix test                                           *)
(***************************************************************************)

\* C23: no closure of the partitioned merge aborts on the slice of its prefix test:
\* whatever keys the stores hold, a key shorter than the prefix counts as a
\* non-match and the run finishes.
C23_ShortKeysNoAbort ==
    job = "merge" => ~main.panicked /\ main.pc # "panic"

(***************************************************************************)
(* Properties of termination                                               *)
(***************************************************************************)

\* How far an iterator has gone: every call of next() moves it on.
Rank(it) == it.pos + (IF it.done THEN 1 ELSE 0)

\* The item is no entry of the partition: not an entry, or a key without the prefix
\* (one too short to have it included).
OutOfPartition(item, prefix) ==
    \/ item.tag # "Ok"
    \/ SliceOutOfRange(item.key, prefix)
    \/ PrefixDiffers(item.key, prefix)

\* The closure after the iteration it is about to run.
NextOf(w) ==
    CASE w.pc = "merge" -> MergeLoopBody(w)
      [] w.pc = "drainL" -> MergeDrainLeftBody(w)
      [] w.pc = "drainR" -> MergeDrainRightBody(w)
      [] OTHER -> w

\* A closure that has ended has both cursors exhausted or on a key outside its prefix.
EndsOver(v) ==
    v.pc \in {"ret", "panic"} =>
        OutOfPartition(v.itemL, v.prefix) /\ OutOfPartition(v.itemR, v.prefix)

\* An iteration of a loop of two-pointer-serial moves a cursor.
SerialAdvances ==
    ser.pc \in {"merge", "drainL", "drainR"} /\ ser' # ser =>
        Rank(ser'.iterL) > Rank(ser.iterL) \/ Rank(ser'.iterR) > Rank(ser.iterR)

\* The iteration a closure is about to run moves a cursor.
ClosuresAdvance ==
    \A t \in Threads :
        job = "merge" /\ thr[t].pc \in {"merge", "drainL", "drainR"} =>
            \/ Rank(NextOf(thr[t]).iterL) > Rank(thr[t].iterL)
            \/ Rank(NextOf(thr[t]).iterR) > Rank(thr[t].iterR)

\* Every closure that ends, at its first test or after an iteration, ends over.
ClosuresEndOver ==
    job = "merge" =>
        /\ \A t \in Threads : EndsOver(NextOf(thr[t]))
        /\ next < Len(MergePrefixes) => EndsOver(MergeEnter(MergePrefixes[next + 1]))

\* two-pointer-serial has left its loops with both cursors exhausted.
SerialOver ==
    ser.pc \in {"report", "done"} /\ ser.itemL.tag = "None" /\ ser.itemR.tag = "None"

\* Every closure of two-pointer-parallel has ended.
PartitionsOver ==
    job = "merge" /\ next = Len(MergePrefixes) /\ \A t \in Threads : thr[t].pc = "idle"

MergeProgress == [][SerialAdvances]_vars /\ []ClosuresAdvance

\* C22: every iteration of the two-pointer loop and of a drain loop moves at least
\* one cursor; two-pointer-serial eventually ends with both cursors exhausted, and
\* every closure of two-pointer-parallel eventually ends, with both cursors
\* exhausted or on a key outside the closure's prefix.
C22_MergeTerminates ==
    /\ [][SerialAdvances]_vars
    /\ []ClosuresAdvance
    /\ []ClosuresEndOver
    /\ <>SerialOver
    /\ <>PartitionsOver

(***************************************************************************)
(* Properties of the grouping key                                          *)
(***************************************************************************)

\* The entries of the source store the Map step has put entry o for.
SourcesOf(o) == {e \in EntriesOf(sourceDb) : MapEntry(e.key, e.value) = o}

\* The entry a Reduce closure has taken its prev_key from: the last one it scanned.
LastProcessed(w) == Processed(w)[Len(Processed(w))]

\* C24: the new_key the Map step builds for a source entry (key k, value text v,
\* with or without a '.' in v) splits at its last '.' into v and hex(k), hex(k)
\* holding no '.'; so the grouping key a Reduce closure computes for an entry the
\* Map step has put is the text of its source value, and two such entries have the
\* same grouping key exactly when their source values have the same text.
C24_GroupingKeyRecovery ==
    /\ \A e \in EntriesOf(sourceDb) :
           LET new_key == MapKey(e.key, e.value)
               dot == RPosition(new_key, Dot)
           IN  /\ dot = Len(FromUtf8Lossy(e.value)) + 1
               /\ SubSeq(new_key, 1, dot - 1) = FromUtf8Lossy(e.value)
               /\ SubSeq(new_key, dot + 1, Len(new_key)) = HexEncode(e.key)
               /\ RPosition(HexEncode(e.key), Dot) = 0
    /\ job = "reduce" =>
           /\ \A t \in Threads :
                  thr[t].pc \in {"loop", "commit"} /\ thr[t].count > 0 =>
                      /\ SourcesOf(LastProcessed(thr[t])) # {}
                      /\ \A e \in SourcesOf(LastProcessed(thr[t])) :
                             thr[t].prev_key = FromUtf8Lossy(e.value)
           /\ \A i, j \in 1..Len(dbLeft) :
                  \A e \in SourcesOf(dbLeft[i]), f \in SourcesOf(dbLeft[j]) :
                      GroupingKey(dbLeft[i].key) = GroupingKey(dbLeft[j].key)
                          <=> FromUtf8Lossy(e.value) = FromUtf8Lossy(f.value)

\* A Reduce closure has taken the grouping key "ab.4", a value with a '.', from the
\* entry the Map step put for the source entry ("01", "ab.4").
C24_Witness ==
    /\ job = "reduce"
    /\ \E t \in Threads :
           /\ thr[t].pc \in {"loop", "commit"} /\ thr[t].count > 0
           /\ thr[t].prev_key = <<97, 98, Dot, 52>>
           /\ [key |-> <<48, 49>>, value |-> <<97, 98, Dot, 52>>] \in SourcesOf(LastProcessed(thr[t]))

(***************************************************************************)
(* Properties of the counts of the Reduce step                             *)
(***************************************************************************)

\* The blobs a group value was joined from, in their order (no blob holds a '|').
RECURSIVE SplitSeq(_, _)
SplitSeq(s, sep) ==
    LET S == {i \in 1..Len(s) : s[i] = sep}
    IN  IF S = {} THEN <<s>>
        ELSE LET i == CHOOSE x \in S : \A y \in S : x <= y
             IN  <<SubSeq(s, 1, i - 1)>> \o SplitSeq(SubSeq(s, i + 1, Len(s)), sep)

\* The blobs of the groups put into a batch, in the order of the puts.
RECURSIVE Emitted(_)
Emitted(batch) ==
    IF batch = <<>> THEN <<>>
    ELSE SplitSeq(Head(batch).value, Pipe) \o Emitted(Tail(batch))

\* The values of the entries es, in their order.
ValuesOf(es) == [i \in 1..Len(es) |-> es[i].value]

\* C25: in a Reduce closure count is the number of entries scanned and
\* count_grouped the number of puts in the batch; the values scanned are, in scan
\* order, those of the groups put followed by those of the open group, and when the
\* closure has left its loop every value scanned is in exactly one group put: the
\* group sizes sum to count, and neither the prev_key.is_empty() test nor the put
\* at the end of the partition drops one.
C25_ReduceAccounting ==
    job = "reduce" =>
        \A t \in Threads :
            LET w == thr[t]
            IN  /\ w.pc \in {"loop", "commit"} =>
                       /\ w.count = Len(Processed(w))
                       /\ w.count_grouped = Len(w.write_batch)
                       /\ \A i \in 1..Len(w.write_batch) : w.write_batch[i].key # <<>>
                /\ w.pc = "loop" =>
                       Emitted(w.write_batch) \o w.blobs_vec = ValuesOf(Processed(w))
                /\ w.pc = "commit" =>
                       /\ Emitted(w.write_batch) = ValuesOf(Processed(w))
                       /\ Len(Emitted(w.write_batch)) = w.count

\* A Reduce closure has left its loop after three entries in two groups, the first
\* of two values and the last of one.
C25_Witness ==
    /\ job = "reduce"
    /\ \E t \in Threads :
           /\ thr[t].pc = "commit"
           /\ thr[t].count = 3 /\ thr[t].count_grouped = 2
           /\ Len(SplitSeq(thr[t].write_batch[1].value, Pipe)) = 2
           /\ Len(SplitSeq(thr[t].write_batch[2].value, Pipe)) = 1

====
